---- MODULE Spec2Model ----
(***************************************************************************)
(* Model of the blocking TWIM (I2C master, EasyDMA) driver of               *)
(* nrf-hal-common/src/twim.rs: the four transaction operations write,       *)
(* read, write_then_read and copy_write_then_read, acting on the register   *)
(* block of one TWIM peripheral.                                            *)
(*                                                                          *)
(* The driver is single-threaded; the only concurrency is between the       *)
(* driver's busy-wait loops and the peripheral, which raises events and     *)
(* sets the address-NACK flag on its own.  Each operation is therefore cut  *)
(* at its busy-wait loops: one action runs from the entry (or from the exit *)
(* of a loop) to the next loop, and the peripheral's steps are actions of   *)
(* their own.                                                               *)
(***************************************************************************)
EXTENDS Integers, Sequences, FiniteSets, TLC

(* Burst maximum of the DMA engine and capacity of the on-stack scratch     *)
(* buffer (255/255 on the nRF52832, 65535/1024 elsewhere), scaled down.     *)
EASY_DMA_SIZE == 2
FORCE_COPY_BUFFER_SIZE == 2

(* Longest caller buffer drawn: one byte more than the burst maximum and at *)
(* least a full and a partial scratch chunk.                                *)
MaxLen == IF EASY_DMA_SIZE + 1 > FORCE_COPY_BUFFER_SIZE + 1
          THEN EASY_DMA_SIZE + 1 ELSE FORCE_COPY_BUFFER_SIZE + 1

(* Slave addresses drawn for the calls. *)
Addrs == {32}

VARIABLES
    twim,       \* the register block of the peripheral (self.0)
    hw,         \* what the peripheral is doing on the bus
    pc,         \* position of the driver: "idle", a busy-wait loop, or "done"
    op,         \* the operation being executed
    address,    \* argument: slave address
    wr_buffer,  \* argument: source buffer [len, inram]
    rd_buffer,  \* argument: destination buffer [len, inram]
    rd_data,    \* contents of the destination buffer
    scratch,    \* contents of the on-stack scratch buffer of copy_write_then_read
    offset,     \* bytes of the source already consumed by the chunk loop
    result,     \* value returned by the operation ("none" while it runs)
    trace,      \* register writes, task triggers, fences and observations of this call
    pre,        \* the register block as it was when the call began
    cfg,        \* pin configuration, pin selection, enable and frequency registers
    built,      \* the arguments `new` was called with: [pins, frequency]
    ad,         \* the capability adapter in progress, if any
    sent,       \* bytes the transmit descriptors of this call covered, in order
    wr_data     \* contents of the source buffer

vars == <<twim, hw, pc, op, address, wr_buffer, rd_buffer, rd_data, scratch,
          offset, result, trace, pre, cfg, built, ad, sent, wr_data>>

Errors == {"TxBufferTooLong", "RxBufferTooLong", "Transmit", "Receive",
           "DMABufferNotInDataMemory", "AddressNack"}

Buffers == [len : 0..MaxLen, inram : BOOLEAN]
RamBuffers == {b \in Buffers : b.inram}
NoBuffer == [len |-> 0, inram |-> TRUE]

Zeros(n) == [i \in 1..n |-> 0]

Min(a, b) == IF a < b THEN a ELSE b

(* Reset values of the registers the operations use. *)
ResetRegs ==
    [address |-> 0,
     txd_ptr |-> "null", txd_maxcnt |-> 0, txd_amount |-> 0,
     rxd_ptr |-> "null", rxd_maxcnt |-> 0, rxd_amount |-> 0,
     anack |-> FALSE,
     events_lasttx |-> FALSE, events_lastrx |-> FALSE, events_stopped |-> FALSE]

(* The pins of port 0 the model follows, and the pin pairs and frequencies  *)
(* `new` is called with.                                                    *)
GpioPins == {25, 26, 27}
PinPairs == {[scl |-> 26, sda |-> 27], [scl |-> 25, sda |-> 26]}
Frequencies == {"K100", "K400"}

(* Reset values of PIN_CNF, PSEL.SCL/SDA, ENABLE and FREQUENCY. *)
ResetPinCnf ==
    [dir |-> "input", input |-> "disconnect", pull |-> "disabled",
     drive |-> "s0s1", sense |-> "disabled"]

ResetConfig ==
    [pin_cnf |-> [p \in GpioPins |-> ResetPinCnf],
     psel_scl |-> [pin |-> 31, connect |-> "disconnected"],
     psel_sda |-> [pin |-> 31, connect |-> "disconnected"],
     enable |-> "disabled",
     frequency |-> "K250"]

(* The value `new` writes to the PIN_CNF register of both pins (60-71). *)
TwimPinCnf ==
    [dir |-> "input", input |-> "connect", pull |-> "pullup",
     drive |-> "s0d1", sense |-> "disabled"]

(* Twim::new, lines 45-95: the configuration registers after it. *)
(* Mutant of line 89: the peripheral is not enabled. *)
New_NotEnabled(c, pins, frequency) ==
    [pin_cnf |-> [p \in GpioPins |->
                     IF p \in {pins.scl, pins.sda} THEN TwimPinCnf
                     ELSE c.pin_cnf[p]],
     psel_scl |-> [pin |-> pins.scl, connect |-> "connected"],
     psel_sda |-> [pin |-> pins.sda, connect |-> "connected"],
     enable |-> c.enable,
     frequency |-> frequency]

New(c, pins, frequency) ==
    [pin_cnf |-> [p \in GpioPins |->
                     IF p \in {pins.scl, pins.sda} THEN TwimPinCnf
                     ELSE c.pin_cnf[p]],
     psel_scl |-> [pin |-> pins.scl, connect |-> "connected"],
     psel_sda |-> [pin |-> pins.sda, connect |-> "connected"],
     enable |-> "enabled",
     frequency |-> frequency]

(* No capability adapter is in progress: the operation was called directly. *)
NoAdapter == [name |-> "none", addr |-> 0, bytes |-> NoBuffer,
              buffer |-> NoBuffer, off |-> 0, log |-> << >>, looping |-> FALSE]

(* The bytes of a caller's source: byte i of the source has the value i;   *)
(* these are the n bytes that follow position off.                          *)
Bytes(n, off) == [i \in 1..n |-> off + i]

InitWith(pins, frequency) ==
    /\ cfg = New(ResetConfig, pins, frequency)
    /\ built = [pins |-> pins, frequency |-> frequency]
    /\ ad = NoAdapter
    /\ sent = << >>
    /\ wr_data = << >>
    /\ twim = ResetRegs
    /\ hw = "idle"
    /\ pc = "idle"
    /\ op = "none"
    /\ address = 0
    /\ wr_buffer = NoBuffer
    /\ rd_buffer = NoBuffer
    /\ rd_data = << >>
    /\ scratch = << >>
    /\ offset = 0
    /\ result = "none"
    /\ trace = << >>
    /\ pre = ResetRegs

Init == InitWith([scl |-> 26, sda |-> 27], "K100")

----------------------------------------------------------------------------
(* Pre-flight checks: the error an operation returns before it touches the  *)
(* peripheral, or "none".                                                   *)

WritePreflight_OffByOne(buffer) ==
    IF ~buffer.inram THEN "DMABufferNotInDataMemory"
    ELSE IF buffer.len > EASY_DMA_SIZE + 1 THEN "TxBufferTooLong"
    ELSE "none"

WritePreflight(buffer) ==
    IF ~buffer.inram THEN "DMABufferNotInDataMemory"
    ELSE IF buffer.len > EASY_DMA_SIZE THEN "TxBufferTooLong"
    ELSE "none"

ReadPreflight(buffer) ==
    IF buffer.len > EASY_DMA_SIZE THEN "RxBufferTooLong" ELSE "none"

WriteThenReadPreflight_SizeFirst(wr, rd) ==
    IF wr.len > EASY_DMA_SIZE THEN "TxBufferTooLong"
    ELSE IF rd.len > EASY_DMA_SIZE THEN "RxBufferTooLong"
    ELSE IF ~wr.inram THEN "DMABufferNotInDataMemory"
    ELSE "none"

WriteThenReadPreflight(wr, rd) ==
    IF ~wr.inram THEN "DMABufferNotInDataMemory"
    ELSE IF wr.len > EASY_DMA_SIZE THEN "TxBufferTooLong"
    ELSE IF rd.len > EASY_DMA_SIZE THEN "RxBufferTooLong"
    ELSE "none"

CopyWriteThenReadPreflight(rx) ==
    IF rx.len > EASY_DMA_SIZE THEN "RxBufferTooLong" ELSE "none"

(* tx_buffer.chunks(FORCE_COPY_BUFFER_SIZE): length of the chunk that       *)
(* begins at `off` in a source of `n` bytes.                                *)
ChunkLen(n, off) == Min(FORCE_COPY_BUFFER_SIZE, n - off)

(* The length copy_write_then_read programs into txd.maxcnt and compares    *)
(* txd.amount with: wr_buffer.len(), the whole scratch slice.               *)
CopyBurstLen(chunkLen) == FORCE_COPY_BUFFER_SIZE

----------------------------------------------------------------------------
(* A call begins: the arguments are bound and the history of the call is    *)
(* reset.                                                                   *)
Enter(o, a, wr, rd) ==
    /\ op' = o
    /\ address' = a
    /\ wr_buffer' = wr
    /\ rd_buffer' = rd
    /\ rd_data' = Zeros(rd.len)
    /\ pre' = twim

(* The call returns `r`. *)
Return(r) ==
    /\ pc' = "done"
    /\ result' = r

(* A pre-flight check fails: `return Err(e)` ahead of the first fence and   *)
(* the first register write (lines 102-106, 182-184, 268-276, 398-400).     *)
Reject_AfterAddress(e) ==
    /\ Return(e)
    /\ sent' = << >>
    /\ twim' = [twim EXCEPT !.address = address']
    /\ trace' = <<"fence", "address">>
    /\ UNCHANGED hw

Reject(e) ==
    /\ Return(e)
    /\ sent' = << >>
    /\ trace' = << >>
    /\ UNCHANGED <<twim, hw>>

(* The caller has the result and the handle back; the next call starts     *)
(* from the registers as this call left them.                               *)
Caller ==
    /\ pc = "done"
    /\ ~ad.looping
    /\ pc' = "idle"
    /\ op' = "none"
    /\ address' = 0
    /\ wr_buffer' = NoBuffer
    /\ rd_buffer' = NoBuffer
    /\ rd_data' = << >>
    /\ scratch' = << >>
    /\ offset' = 0
    /\ result' = "none"
    /\ trace' = << >>
    /\ pre' = twim
    /\ ad' = NoAdapter
    /\ sent' = << >>
    /\ wr_data' = << >>
    /\ UNCHANGED <<twim, hw, cfg, built>>

(* The fences, register writes, task triggers and loop exits of a step, and *)
(* the steps of the peripheral, are appended to the trace in program order. *)
Log(t) == trace' = trace \o t

----------------------------------------------------------------------------
(* The peripheral.  hw is "idle" (bus free), "tx"/"rx" (a burst is being    *)
(* driven), "held" (the burst has signalled its last byte and the bus is    *)
(* held until the next start or stop task), "nacked" (the slave did not     *)
(* acknowledge; nothing more happens until a task is triggered),            *)
(* "tx_nack"/"rx_nack" (the slave did not acknowledge and the last-byte     *)
(* event is still to come) or "stopping" (a stop condition is being         *)
(* generated).                                                              *)

(* events_lasttx polled at 144, 334, 463; txd.amount read at 167, 373, 467. *)
HwLastTx ==
    /\ hw \in {"tx", "tx_nack"}
    /\ \E n \in 0..twim.txd_maxcnt :
          twim' = [twim EXCEPT !.events_lasttx = TRUE, !.txd_amount = n]
    /\ hw' = "held"
    /\ Log(<<"hw:lasttx">>)
    /\ UNCHANGED <<pc, op, address, wr_buffer, rd_buffer, rd_data, scratch,
                   offset, result, pre, cfg, built, ad, sent, wr_data>>

(* events_lastrx polled at 225, 354, 478; rxd.amount read at 248, 374, 496. *)
(* The DMA engine stores the received bytes at rxd.ptr.                     *)
HwLastRx ==
    /\ hw \in {"rx", "rx_nack"}
    /\ \E n \in 0..twim.rxd_maxcnt :
          /\ twim' = [twim EXCEPT !.events_lastrx = TRUE, !.rxd_amount = n]
          /\ rd_data' = IF twim.rxd_ptr = "rd_buffer"
                        THEN [i \in 1..Len(rd_data) |->
                                 IF i <= n THEN 1 ELSE rd_data[i]]
                        ELSE rd_data
    /\ hw' = "held"
    /\ Log(<<"hw:lastrx">>)
    /\ UNCHANGED <<pc, op, address, wr_buffer, rd_buffer, scratch,
                   offset, result, pre, cfg, built, ad, sent, wr_data>>

(* errorsrc.anack polled at 145, 163, 226, 244, 335, 340: the slave does    *)
(* not acknowledge.  The burst ends there, or (nothing in the driver rules  *)
(* it out) the peripheral still signals the last byte afterwards.           *)
HwAnack ==
    /\ hw \in {"tx", "rx"}
    /\ twim' = [twim EXCEPT !.anack = TRUE]
    /\ \E h \in {"nacked", IF hw = "tx" THEN "tx_nack" ELSE "rx_nack"} : hw' = h
    /\ Log(<<"hw:anack">>)
    /\ UNCHANGED <<pc, op, address, wr_buffer, rd_buffer, rd_data, scratch,
                   offset, result, pre, cfg, built, ad, sent, wr_data>>

(* events_stopped polled at 155, 236, 344, 362, 487. *)
HwStopped ==
    /\ hw = "stopping"
    /\ twim' = [twim EXCEPT !.events_stopped = TRUE]
    /\ hw' = "idle"
    /\ Log(<<"hw:stopped">>)
    /\ UNCHANGED <<pc, op, address, wr_buffer, rd_buffer, rd_data, scratch,
                   offset, result, pre, cfg, built, ad, sent, wr_data>>

----------------------------------------------------------------------------
(* write, lines 101-141: checks, fence, registers, start of the burst. *)
Write_Call(a, buffer, data) ==
    /\ Enter("write", a, buffer, NoBuffer)
    /\ wr_data' = data
    /\ scratch' = << >>
    /\ offset' = 0
    /\ IF WritePreflight(buffer) # "none"
       THEN Reject(WritePreflight(buffer))
       ELSE /\ twim' = [twim EXCEPT !.address = a,
                                    !.txd_ptr = "wr_buffer",
                                    !.txd_maxcnt = buffer.len,
                                    !.anack = FALSE]
            /\ hw' = "tx"
            /\ sent' = SubSeq(data, 1, buffer.len)
            /\ trace' = <<"fence", "address", "txd.ptr", "txd.maxcnt",
                          "errorsrc", "tasks_starttx">>
            /\ pc' = "write_lasttx"
            /\ result' = "none"

(* write called by the user of the handle. *)
Write_Begin ==
    /\ pc = "idle"
    /\ \E a \in Addrs, buffer \in Buffers :
          Write_Call(a, buffer, Bytes(buffer.len, 0))
    /\ UNCHANGED <<cfg, built, ad>>

(* write, lines 143-152: the loop is left on the last-byte event or on the  *)
(* NACK flag; the event is reset and the stop task triggered.               *)
Write_LastTx ==
    /\ pc = "write_lasttx"
    /\ twim.events_lasttx \/ twim.anack
    /\ twim' = [twim EXCEPT !.events_lasttx = FALSE]
    /\ hw' = "stopping"
    /\ Log(<<IF twim.events_lasttx THEN "see:lasttx" ELSE "see:anack",
             "events_lasttx", "tasks_stop">>)
    /\ pc' = "write_stopped"
    /\ UNCHANGED <<op, address, wr_buffer, rd_buffer, rd_data, scratch,
                   offset, result, pre, cfg, built, ad, sent, wr_data>>

(* write, lines 154-171. *)
Write_Stopped ==
    /\ pc = "write_stopped"
    /\ twim.events_stopped
    /\ twim' = [twim EXCEPT !.events_stopped = FALSE]
    /\ Log(<<"see:stopped", "events_stopped", "fence">>)
    /\ Return(IF twim.anack THEN "AddressNack"
              ELSE IF twim.txd_amount # wr_buffer.len THEN "Transmit"
              ELSE "Ok")
    /\ UNCHANGED <<hw, op, address, wr_buffer, rd_buffer, rd_data, scratch,
                   offset, pre, cfg, built, ad, sent, wr_data>>

(* read, lines 178-222. *)
Read_Call(a, buffer) ==
    /\ Enter("read", a, NoBuffer, buffer)
    /\ wr_data' = << >>
    /\ scratch' = << >>
    /\ offset' = 0
    /\ IF ReadPreflight(buffer) # "none"
       THEN Reject(ReadPreflight(buffer))
       ELSE /\ twim' = [twim EXCEPT !.address = a,
                                    !.rxd_ptr = "rd_buffer",
                                    !.rxd_maxcnt = buffer.len,
                                    !.anack = FALSE]
            /\ hw' = "rx"
            /\ sent' = << >>
            /\ trace' = <<"fence", "address", "rxd.ptr", "rxd.maxcnt",
                          "errorsrc", "tasks_startrx">>
            /\ pc' = "read_lastrx"
            /\ result' = "none"

(* read called by the user of the handle. *)
Read_Begin ==
    /\ pc = "idle"
    /\ \E a \in Addrs, buffer \in Buffers : Read_Call(a, buffer)
    /\ UNCHANGED <<cfg, built, ad>>

(* read, lines 224-233. *)
Read_LastRx ==
    /\ pc = "read_lastrx"
    /\ twim.events_lastrx \/ twim.anack
    /\ twim' = [twim EXCEPT !.events_lastrx = FALSE]
    /\ hw' = "stopping"
    /\ Log(<<IF twim.events_lastrx THEN "see:lastrx" ELSE "see:anack",
             "events_lastrx", "tasks_stop">>)
    /\ pc' = "read_stopped"
    /\ UNCHANGED <<op, address, wr_buffer, rd_buffer, rd_data, scratch,
                   offset, result, pre, cfg, built, ad, sent, wr_data>>

(* read, lines 235-253. *)
Read_Stopped ==
    /\ pc = "read_stopped"
    /\ twim.events_stopped
    /\ twim' = [twim EXCEPT !.events_stopped = FALSE]
    /\ Log(<<"see:stopped", "events_stopped", "fence">>)
    /\ Return(IF twim.anack THEN "AddressNack"
              ELSE IF twim.rxd_amount # rd_buffer.len THEN "Receive"
              ELSE "Ok")
    /\ UNCHANGED <<hw, op, address, wr_buffer, rd_buffer, rd_data, scratch,
                   offset, pre, cfg, built, ad, sent, wr_data>>

(* write_then_read, lines 260-331. *)
WriteThenRead_Call(a, wr, rd) ==
    /\ Enter("write_then_read", a, wr, rd)
    /\ wr_data' = Bytes(wr.len, 0)
    /\ scratch' = << >>
    /\ offset' = 0
    /\ IF WriteThenReadPreflight(wr, rd) # "none"
       THEN Reject(WriteThenReadPreflight(wr, rd))
       ELSE /\ twim' = [twim EXCEPT !.address = a,
                                    !.txd_ptr = "wr_buffer",
                                    !.txd_maxcnt = wr.len,
                                    !.rxd_ptr = "rd_buffer",
                                    !.rxd_maxcnt = rd.len,
                                    !.anack = FALSE]
            /\ hw' = "tx"
            /\ sent' = Bytes(wr.len, 0)
            /\ trace' = <<"fence", "address", "txd.ptr", "txd.maxcnt",
                          "rxd.ptr", "rxd.maxcnt", "errorsrc",
                          "tasks_starttx">>
            /\ pc' = "wtr_lasttx"
            /\ result' = "none"

(* write_then_read called by the user of the handle. *)
WriteThenRead_Begin ==
    /\ pc = "idle"
    /\ \E a \in Addrs, wr \in Buffers, rd \in RamBuffers :
          WriteThenRead_Call(a, wr, rd)
    /\ UNCHANGED <<cfg, built, ad>>

(* Mutants of lines 339-351: the NACK check left out; AddressNack returned  *)
(* without the stop sequence.                                               *)
WriteThenRead_LastTx_NoNackCheck ==
    /\ pc = "wtr_lasttx"
    /\ twim.events_lasttx \/ twim.anack
    /\ twim' = [twim EXCEPT !.events_lasttx = FALSE]
    /\ hw' = "rx"
    /\ Log(<<IF twim.events_lasttx THEN "see:lasttx" ELSE "see:anack",
             "events_lasttx", "tasks_startrx">>)
    /\ pc' = "wtr_lastrx"
    /\ UNCHANGED <<op, address, wr_buffer, rd_buffer, rd_data, scratch,
                   offset, result, pre, cfg, built, ad, sent, wr_data>>

WriteThenRead_LastTx_NoStop ==
    /\ pc = "wtr_lasttx"
    /\ twim.events_lasttx \/ twim.anack
    /\ twim' = [twim EXCEPT !.events_lasttx = FALSE]
    /\ IF twim.anack
       THEN /\ Log(<<IF twim.events_lasttx THEN "see:lasttx" ELSE "see:anack",
                     "events_lasttx">>)
            /\ Return("AddressNack")
            /\ UNCHANGED hw
       ELSE /\ hw' = "rx"
            /\ Log(<<"see:lasttx", "events_lasttx", "tasks_startrx">>)
            /\ pc' = "wtr_lastrx"
            /\ UNCHANGED result
    /\ UNCHANGED <<op, address, wr_buffer, rd_buffer, rd_data, scratch,
                   offset, pre, cfg, built, ad, sent, wr_data>>

(* write_then_read, lines 333-351: after the transmit loop either the stop  *)
(* task (address NACK) or the receive start task is triggered.              *)
WriteThenRead_LastTx ==
    /\ pc = "wtr_lasttx"
    /\ twim.events_lasttx \/ twim.anack
    /\ twim' = [twim EXCEPT !.events_lasttx = FALSE]
    /\ IF twim.anack
       THEN /\ hw' = "stopping"
            /\ Log(<<IF twim.events_lasttx THEN "see:lasttx" ELSE "see:anack",
                     "events_lasttx", "tasks_stop">>)
            /\ pc' = "wtr_nack_stopped"
       ELSE /\ hw' = "rx"
            /\ Log(<<"see:lasttx", "events_lasttx", "tasks_startrx">>)
            /\ pc' = "wtr_lastrx"
    /\ UNCHANGED <<op, address, wr_buffer, rd_buffer, rd_data, scratch,
                   offset, result, pre, cfg, built, ad, sent, wr_data>>

(* write_then_read, lines 343-346. *)
WriteThenRead_NackStopped ==
    /\ pc = "wtr_nack_stopped"
    /\ twim.events_stopped
    /\ twim' = [twim EXCEPT !.events_stopped = FALSE]
    /\ Log(<<"see:stopped", "events_stopped">>)
    /\ Return("AddressNack")
    /\ UNCHANGED <<hw, op, address, wr_buffer, rd_buffer, rd_data, scratch,
                   offset, pre, cfg, built, ad, sent, wr_data>>

(* write_then_read, lines 353-359. *)
WriteThenRead_LastRx ==
    /\ pc = "wtr_lastrx"
    /\ twim.events_lastrx
    /\ twim' = [twim EXCEPT !.events_lastrx = FALSE]
    /\ hw' = "stopping"
    /\ Log(<<"see:lastrx", "events_lastrx", "tasks_stop">>)
    /\ pc' = "wtr_stopped"
    /\ UNCHANGED <<op, address, wr_buffer, rd_buffer, rd_data, scratch,
                   offset, result, pre, cfg, built, ad, sent, wr_data>>

(* Mutant of lines 373-382: the receive amount is checked first. *)
WriteThenRead_Stopped_ReceiveFirst ==
    /\ pc = "wtr_stopped"
    /\ twim.events_stopped
    /\ twim' = [twim EXCEPT !.events_lasttx = FALSE,
                            !.events_lastrx = FALSE,
                            !.events_stopped = FALSE]
    /\ Log(<<"see:stopped", "events_lasttx", "events_lastrx",
             "events_stopped", "fence">>)
    /\ Return(IF twim.rxd_amount # rd_buffer.len THEN "Receive"
              ELSE IF twim.txd_amount # wr_buffer.len THEN "Transmit"
              ELSE "Ok")
    /\ UNCHANGED <<hw, op, address, wr_buffer, rd_buffer, rd_data, scratch,
                   offset, pre, cfg, built, ad, sent, wr_data>>

(* write_then_read, lines 361-384. *)
WriteThenRead_Stopped ==
    /\ pc = "wtr_stopped"
    /\ twim.events_stopped
    /\ twim' = [twim EXCEPT !.events_lasttx = FALSE,
                            !.events_lastrx = FALSE,
                            !.events_stopped = FALSE]
    /\ Log(<<"see:stopped", "events_lasttx", "events_lastrx",
             "events_stopped", "fence">>)
    /\ Return(IF twim.txd_amount # wr_buffer.len THEN "Transmit"
              ELSE IF twim.rxd_amount # rd_buffer.len THEN "Receive"
              ELSE "Ok")
    /\ UNCHANGED <<hw, op, address, wr_buffer, rd_buffer, rd_data, scratch,
                   offset, pre, cfg, built, ad, sent, wr_data>>

(* copy_write_then_read, lines 392-433. *)
CopyWriteThenRead_Call(a, tx, rx) ==
    /\ Enter("copy_write_then_read", a, tx, rx)
    /\ wr_data' = Bytes(tx.len, 0)
    /\ offset' = 0
    /\ IF CopyWriteThenReadPreflight(rx) # "none"
       THEN /\ Reject(CopyWriteThenReadPreflight(rx))
            /\ scratch' = << >>
       ELSE /\ UNCHANGED hw
            /\ twim' = [twim EXCEPT !.address = a,
                                    !.rxd_ptr = "rd_buffer",
                                    !.rxd_maxcnt = rx.len]
            /\ scratch' = Zeros(FORCE_COPY_BUFFER_SIZE)
            /\ sent' = << >>
            /\ trace' = <<"fence", "address", "rxd.ptr", "rxd.maxcnt">>
            /\ pc' = "cwtr_loop"
            /\ result' = "none"

(* copy_write_then_read called by the user of the handle. *)
CopyWriteThenRead_Begin ==
    /\ pc = "idle"
    /\ \E a \in Addrs, tx \in Buffers, rx \in RamBuffers :
          CopyWriteThenRead_Call(a, tx, rx)
    /\ UNCHANGED <<cfg, built, ad>>

(* copy_write_then_read, lines 434-460: the next chunk is copied into the   *)
(* scratch buffer and its burst is started.                                 *)
CopyWriteThenRead_Chunk ==
    /\ pc = "cwtr_loop"
    /\ offset < wr_buffer.len
    /\ LET n == ChunkLen(wr_buffer.len, offset) IN
          /\ scratch' = [i \in 1..Len(scratch) |->
                            IF i <= n THEN wr_data[offset + i] ELSE scratch[i]]
          /\ twim' = [twim EXCEPT !.txd_ptr = "scratch",
                                  !.txd_maxcnt = CopyBurstLen(n)]
          /\ sent' = sent \o SubSeq(scratch', 1, CopyBurstLen(n))
    /\ hw' = "tx"
    /\ Log(<<"copy", "txd.ptr", "txd.maxcnt", "tasks_starttx">>)
    /\ pc' = "cwtr_lasttx"
    /\ UNCHANGED <<op, address, wr_buffer, rd_buffer, rd_data, offset,
                   result, pre, cfg, built, ad, wr_data>>

(* copy_write_then_read, lines 462-470. *)
CopyWriteThenRead_LastTx ==
    /\ pc = "cwtr_lasttx"
    /\ twim.events_lasttx
    /\ twim' = [twim EXCEPT !.events_lasttx = FALSE]
    /\ Log(<<"see:lasttx", "events_lasttx">>)
    /\ IF twim.txd_amount # CopyBurstLen(ChunkLen(wr_buffer.len, offset))
       THEN /\ Return("Transmit")
            /\ UNCHANGED offset
       ELSE /\ offset' = offset + ChunkLen(wr_buffer.len, offset)
            /\ pc' = "cwtr_loop"
            /\ UNCHANGED result
    /\ UNCHANGED <<hw, op, address, wr_buffer, rd_buffer, rd_data, scratch,
                   pre, cfg, built, ad, sent, wr_data>>

(* copy_write_then_read, lines 472-475: the chunks are exhausted. *)
CopyWriteThenRead_StartRx ==
    /\ pc = "cwtr_loop"
    /\ offset >= wr_buffer.len
    /\ hw' = "rx"
    /\ Log(<<"tasks_startrx">>)
    /\ pc' = "cwtr_lastrx"
    /\ UNCHANGED <<twim, op, address, wr_buffer, rd_buffer, rd_data, scratch,
                   offset, result, pre, cfg, built, ad, sent, wr_data>>

(* copy_write_then_read, lines 477-484. *)
CopyWriteThenRead_LastRx ==
    /\ pc = "cwtr_lastrx"
    /\ twim.events_lastrx
    /\ twim' = [twim EXCEPT !.events_lastrx = FALSE]
    /\ hw' = "stopping"
    /\ Log(<<"see:lastrx", "events_lastrx", "tasks_stop">>)
    /\ pc' = "cwtr_stopped"
    /\ UNCHANGED <<op, address, wr_buffer, rd_buffer, rd_data, scratch,
                   offset, result, pre, cfg, built, ad, sent, wr_data>>

(* copy_write_then_read, lines 486-500. *)
CopyWriteThenRead_Stopped ==
    /\ pc = "cwtr_stopped"
    /\ twim.events_stopped
    /\ twim' = [twim EXCEPT !.events_stopped = FALSE]
    /\ Log(<<"see:stopped", "events_stopped", "fence">>)
    /\ Return(IF twim.rxd_amount # rd_buffer.len THEN "Receive" ELSE "Ok")
    /\ UNCHANGED <<hw, op, address, wr_buffer, rd_buffer, rd_data, scratch,
                   offset, pre, cfg, built, ad, sent, wr_data>>

(* Mutant of line 505: free disables the peripheral before handing it back. *)
Free_Disable ==
    /\ pc = "idle"
    /\ pc' = "freed"
    /\ cfg' = [cfg EXCEPT !.enable = "disabled"]
    /\ UNCHANGED <<twim, hw, op, address, wr_buffer, rd_buffer, rd_data,
                   scratch, offset, result, trace, pre, built, ad, sent,
                   wr_data>>

(* free, lines 503-506: the handle is consumed and the peripheral handed    *)
(* back; nothing can be called on the handle afterwards.                    *)
Free ==
    /\ pc = "idle"
    /\ pc' = "freed"
    /\ UNCHANGED <<twim, hw, op, address, wr_buffer, rd_buffer, rd_data,
                   scratch, offset, result, trace, pre, cfg, built, ad, sent, wr_data>>

----------------------------------------------------------------------------
(* The capability adapters (embedded_hal::blocking::i2c), lines 509-558.    *)
(* ad holds the arguments of the adapter call; for the chunk loop of the    *)
(* write adapter also the offset of the chunk in progress, the chunks done  *)
(* (offset, length, result, bytes covered) and whether the loop has yet to  *)
(* look at the result of the write in progress.                             *)

Adapter(name, a, bytes, buffer, looping) ==
    [name |-> name, addr |-> a, bytes |-> bytes, buffer |-> buffer,
     off |-> 0, log |-> << >>, looping |-> looping]

(* Lines 552-556: the operation write_read hands its arguments to. *)
WriteReadDispatch_Inverted(bytes) ==
    IF bytes.inram THEN "copy_write_then_read" ELSE "write_then_read"

WriteReadDispatch(bytes) ==
    IF bytes.inram THEN "write_then_read" ELSE "copy_write_then_read"

(* Lines 516-519: write directly, or chunk by chunk through `buf`. *)
WriteDispatch(bytes) == IF bytes.inram THEN "write" ELSE "chunks"

(* Mutant of line 522: the whole of `buf` is handed to write. *)
ChunkSlice_WholeBuf(bytes, off) ==
    [len |-> FORCE_COPY_BUFFER_SIZE, inram |-> TRUE]

(* The slice &buf[..chunk.len()] handed to write for the chunk at `off`:    *)
(* it lies on the stack, in RAM.                                            *)
ChunkSlice(bytes, off) == [len |-> ChunkLen(bytes.len, off), inram |-> TRUE]

(* The first n bytes of `buf` once the chunk at `off` has been copied in    *)
(* (line 521): the chunk, then what `buf` held before, zeros on the first   *)
(* chunk and the bytes of the chunk before on a later one.                  *)
ChunkData(bytes, off, n) ==
    [i \in 1..n |-> IF i <= ChunkLen(bytes.len, off) THEN off + i
                    ELSE IF off = 0 THEN 0
                    ELSE off - FORCE_COPY_BUFFER_SIZE + i]

(* Read adapter, lines 535-537. *)
AdapterRead_Begin ==
    /\ pc = "idle"
    /\ \E a \in Addrs, bytes \in Buffers :
          /\ Read_Call(a, bytes)
          /\ ad' = Adapter("read", a, NoBuffer, bytes, FALSE)
    /\ UNCHANGED <<cfg, built>>

(* WriteRead adapter, lines 546-557. *)
AdapterWriteRead_Begin ==
    /\ pc = "idle"
    /\ \E a \in Addrs, bytes \in Buffers, buffer \in RamBuffers :
          /\ IF WriteReadDispatch(bytes) = "write_then_read"
             THEN WriteThenRead_Call(a, bytes, buffer)
             ELSE CopyWriteThenRead_Call(a, bytes, buffer)
          /\ ad' = Adapter("write_read", a, bytes, buffer, FALSE)
    /\ UNCHANGED <<cfg, built>>

(* Write adapter, lines 515-522: the direct write, or the first chunk; an   *)
(* empty source outside RAM gives Ok(()) with no write at all.              *)
AdapterWrite_Begin ==
    /\ pc = "idle"
    /\ \E a \in Addrs, bytes \in Buffers :
          IF WriteDispatch(bytes) = "write"
          THEN /\ Write_Call(a, bytes, Bytes(bytes.len, 0))
               /\ ad' = Adapter("write", a, bytes, NoBuffer, FALSE)
          ELSE IF bytes.len = 0
          THEN /\ ad' = Adapter("write", a, bytes, NoBuffer, FALSE)
               /\ Return("Ok")
               /\ UNCHANGED <<twim, hw, op, address, wr_buffer, rd_buffer,
                              rd_data, scratch, offset, trace, pre, sent,
                              wr_data>>
          ELSE /\ Write_Call(a, ChunkSlice(bytes, 0),
                             ChunkData(bytes, 0, ChunkSlice(bytes, 0).len))
               /\ ad' = Adapter("write", a, bytes, NoBuffer, TRUE)
    /\ UNCHANGED <<cfg, built>>

(* What the chunk loop records of the write that has just returned. *)
ChunkDone ==
    [off |-> ad.off, len |-> wr_buffer.len, result |-> result, sent |-> sent]

(* Mutant of line 522: the `?` left out, the result of the chunk ignored. *)
AdapterWrite_Next_IgnoreError ==
    /\ pc = "done"
    /\ ad.looping
    /\ LET next == ad.off + wr_buffer.len IN
          IF next >= ad.bytes.len
          THEN /\ ad' = [ad EXCEPT !.log = Append(@, ChunkDone),
                                   !.looping = FALSE]
               /\ result' = "Ok"
               /\ UNCHANGED <<twim, hw, pc, op, address, wr_buffer,
                              rd_buffer, rd_data, scratch, offset, trace,
                              pre, sent, wr_data>>
          ELSE /\ Write_Call(ad.addr, ChunkSlice(ad.bytes, next),
                             ChunkData(ad.bytes, next,
                                       ChunkSlice(ad.bytes, next).len))
               /\ ad' = [ad EXCEPT !.log = Append(@, ChunkDone),
                                   !.off = next]
    /\ UNCHANGED <<cfg, built>>

(* Write adapter, lines 520-524: the write of a chunk has returned; its     *)
(* error is returned, or the next chunk is written, or the loop ends with   *)
(* Ok(()).                                                                  *)
AdapterWrite_Next ==
    /\ pc = "done"
    /\ ad.looping
    /\ LET next == ad.off + wr_buffer.len IN
          IF result # "Ok" \/ next >= ad.bytes.len
          THEN /\ ad' = [ad EXCEPT !.log = Append(@, ChunkDone),
                                   !.looping = FALSE]
               /\ UNCHANGED <<twim, hw, pc, op, address, wr_buffer,
                              rd_buffer, rd_data, scratch, offset, result,
                              trace, pre, sent, wr_data>>
          ELSE /\ Write_Call(ad.addr, ChunkSlice(ad.bytes, next),
                             ChunkData(ad.bytes, next,
                                       ChunkSlice(ad.bytes, next).len))
               /\ ad' = [ad EXCEPT !.log = Append(@, ChunkDone),
                                   !.off = next]
    /\ UNCHANGED <<cfg, built>>

----------------------------------------------------------------------------
Next ==
    \/ Write_Begin \/ Write_LastTx \/ Write_Stopped
    \/ Read_Begin \/ Read_LastRx \/ Read_Stopped
    \/ WriteThenRead_Begin \/ WriteThenRead_LastTx
    \/ WriteThenRead_NackStopped \/ WriteThenRead_LastRx
    \/ WriteThenRead_Stopped
    \/ CopyWriteThenRead_Begin \/ CopyWriteThenRead_Chunk
    \/ CopyWriteThenRead_LastTx \/ CopyWriteThenRead_StartRx
    \/ CopyWriteThenRead_LastRx \/ CopyWriteThenRead_Stopped
    \/ Caller \/ Free
    \/ HwLastTx \/ HwLastRx \/ HwAnack \/ HwStopped

Spec == Init /\ [][Next]_vars

(* The handle used through the capability adapters only. *)
NextAdapters ==
    \/ AdapterWrite_Begin \/ AdapterWrite_Next
    \/ AdapterRead_Begin \/ AdapterWriteRead_Begin
    \/ Write_LastTx \/ Write_Stopped
    \/ Read_LastRx \/ Read_Stopped
    \/ WriteThenRead_LastTx \/ WriteThenRead_NackStopped
    \/ WriteThenRead_LastRx \/ WriteThenRead_Stopped
    \/ CopyWriteThenRead_Chunk \/ CopyWriteThenRead_LastTx
    \/ CopyWriteThenRead_StartRx \/ CopyWriteThenRead_LastRx
    \/ CopyWriteThenRead_Stopped
    \/ Caller \/ Free
    \/ HwLastTx \/ HwLastRx \/ HwAnack \/ HwStopped

SpecAdapters == Init /\ [][NextAdapters]_vars

(* A handle built by new from any pins and frequency, then used for write   *)
(* and read and freed.                                                      *)
InitNew == \E pins \in PinPairs, frequency \in Frequencies :
              InitWith(pins, frequency)

NextNew ==
    \/ Write_Begin \/ Write_LastTx \/ Write_Stopped
    \/ Read_Begin \/ Read_LastRx \/ Read_Stopped
    \/ Caller \/ Free
    \/ HwLastTx \/ HwLastRx \/ HwAnack \/ HwStopped

SpecNew == InitNew /\ [][NextNew]_vars

----------------------------------------------------------------------------
(* Reading the trace of the current call. *)

Has(e) == \E i \in DOMAIN trace : trace[i] = e

Count(e) == Cardinality({i \in DOMAIN trace : trace[i] = e})

(* Position of the first / last occurrence of e, 0 when there is none. *)
First(e) == IF Has(e) THEN CHOOSE i \in DOMAIN trace :
                               /\ trace[i] = e
                               /\ \A j \in 1..(i - 1) : trace[j] # e
            ELSE 0

Last(e) == IF Has(e) THEN CHOOSE i \in DOMAIN trace :
                              /\ trace[i] = e
                              /\ \A j \in (i + 1)..Len(trace) : trace[j] # e
           ELSE 0

Returned == pc = "done"

PreflightErrors == {"TxBufferTooLong", "RxBufferTooLong",
                    "DMABufferNotInDataMemory"}

(* Nothing of the peripheral or of the destination buffer was touched in    *)
(* this call: no register write, no task, no step of the peripheral.        *)
Untouched ==
    /\ trace = << >>
    /\ twim = pre
    /\ rd_data = Zeros(rd_buffer.len)

----------------------------------------------------------------------------
(* C1 as stated: for every buffer longer than EASY_DMA_SIZE, whatever its   *)
(* memory location, write returns TxBufferTooLong and read returns          *)
(* RxBufferTooLong, and no register changes.                                *)
C1_AsStated ==
    /\ (Returned /\ op = "write" /\ wr_buffer.len > EASY_DMA_SIZE)
          => (result = "TxBufferTooLong" /\ Untouched)
    /\ (Returned /\ op = "read" /\ rd_buffer.len > EASY_DMA_SIZE)
          => (result = "RxBufferTooLong" /\ Untouched)

(* C1 amended: for every buffer longer than EASY_DMA_SIZE, read returns     *)
(* RxBufferTooLong whatever the location of the buffer, and write returns   *)
(* TxBufferTooLong when the buffer is RAM-resident and                      *)
(* DMABufferNotInDataMemory when it is not; in each case no register of the *)
(* peripheral changes during the call.                                      *)
C1_TooLong ==
    /\ (Returned /\ op = "write" /\ wr_buffer.len > EASY_DMA_SIZE)
          => /\ result = IF wr_buffer.inram THEN "TxBufferTooLong"
                         ELSE "DMABufferNotInDataMemory"
             /\ Untouched
    /\ (Returned /\ op = "read" /\ rd_buffer.len > EASY_DMA_SIZE)
          => (result = "RxBufferTooLong" /\ Untouched)

(* A write of a RAM-resident buffer that is too long has returned, on a     *)
(* peripheral whose registers an earlier transaction has left programmed.   *)
C1_Witness ==
    /\ Returned /\ op = "write"
    /\ wr_buffer.len > EASY_DMA_SIZE /\ wr_buffer.inram
    /\ result = "TxBufferTooLong"
    /\ pre.txd_maxcnt > 0 /\ pre.rxd_amount > 0

(* C2: for every source buffer that is not RAM-resident, write and          *)
(* write_then_read return DMABufferNotInDataMemory without triggering       *)
(* tasks_starttx or tasks_startrx, whatever the buffer lengths; read never  *)
(* returns DMABufferNotInDataMemory, wherever its buffer lies.              *)
C2_NotInDataMemory ==
    /\ (op \in {"write", "write_then_read"} /\ ~wr_buffer.inram)
          => /\ Returned
             /\ result = "DMABufferNotInDataMemory"
             /\ ~Has("tasks_starttx") /\ ~Has("tasks_startrx")
    /\ op = "read" => result # "DMABufferNotInDataMemory"
    /\ (op = "read" /\ ~rd_buffer.inram /\ rd_buffer.len <= EASY_DMA_SIZE)
          => Has("tasks_startrx")

(* write_then_read has returned for a source outside RAM whose length and   *)
(* whose destination's length both exceed the burst maximum.                *)
C2_Witness ==
    /\ Returned /\ op = "write_then_read"
    /\ ~wr_buffer.inram
    /\ wr_buffer.len > EASY_DMA_SIZE /\ rd_buffer.len > EASY_DMA_SIZE
    /\ result = "DMABufferNotInDataMemory"

(* C3: whenever an operation returns TxBufferTooLong, RxBufferTooLong or    *)
(* DMABufferNotInDataMemory, the call has written no register and triggered *)
(* no task: registers and destination buffer are as before the call; and    *)
(* once a register has been written none of the three is returned.          *)
C3_PreflightFrame ==
    /\ (Returned /\ result \in PreflightErrors) => Untouched
    /\ trace # << >> => result \notin PreflightErrors

(* copy_write_then_read has returned RxBufferTooLong for a non-empty source *)
(* after an earlier transaction left the address-NACK flag set.             *)
C3_Witness ==
    /\ Returned /\ op = "copy_write_then_read"
    /\ result = "RxBufferTooLong"
    /\ wr_buffer.len > 0
    /\ pre.anack /\ pre.address # 0

----------------------------------------------------------------------------
StartTasks == {"tasks_starttx", "tasks_startrx"}

(* Position of the last start task of the call, 0 when there is none. *)
LastStart ==
    IF Last("tasks_starttx") > Last("tasks_startrx")
    THEN Last("tasks_starttx") ELSE Last("tasks_startrx")

(* The stop sequence has been run after the last start task: tasks_stop     *)
(* triggered, the stopped event seen and then reset, the bus idle.          *)
StoppedAfterLastStart ==
    /\ Has("tasks_stop")
    /\ LastStart < Last("tasks_stop")
    /\ Last("tasks_stop") < Last("see:stopped")
    /\ Last("see:stopped") < Last("events_stopped")
    /\ ~twim.events_stopped
    /\ hw = "idle"

(* In write_then_read the transmit wait loop has been left (the first reset *)
(* of events_lasttx follows it) and the peripheral had set the address-NACK *)
(* flag by then.                                                            *)
NackAtTxExit ==
    /\ op = "write_then_read"
    /\ Has("events_lasttx")
    /\ \E i \in 1..First("events_lasttx") : trace[i] = "hw:anack"

(* C4: in write_then_read, if the address-NACK flag is set when the         *)
(* transmit wait loop is left, tasks_startrx is never triggered, the        *)
(* destination buffer stays unmodified, tasks_stop is triggered exactly     *)
(* once, and the call returns AddressNack after the stopped event was seen. *)
C4_NackInTransmitPhase ==
    NackAtTxExit =>
        /\ ~Has("tasks_startrx")
        /\ rd_data = Zeros(rd_buffer.len)
        /\ Count("tasks_stop") = 1
        /\ pc \in {"wtr_nack_stopped", "done"}
        /\ Returned => /\ result = "AddressNack"
                       /\ Last("tasks_stop") < Last("see:stopped")

(* write_then_read into a non-empty destination has returned after the      *)
(* slave refused the address in the transmit phase.                         *)
C4_Witness ==
    /\ Returned /\ NackAtTxExit
    /\ wr_buffer.len = 1 /\ rd_buffer.len = EASY_DMA_SIZE
    /\ result = "AddressNack"

(* C5 as stated: whenever an operation returns Transmit or Receive, the     *)
(* stop sequence has been run in that call after the last start task and    *)
(* the peripheral is idle.                                                  *)
C5_AsStated ==
    (Returned /\ result \in {"Transmit", "Receive"}) => StoppedAfterLastStart

(* C6: whenever write, read or write_then_read returns AddressNack, the     *)
(* stop sequence has been run in that call: tasks_stop after the start      *)
(* task, the stopped event seen and reset, and the bus idle at the return;  *)
(* no other operation returns AddressNack.                                  *)
C6_NackAfterStop ==
    (Returned /\ result = "AddressNack") =>
        /\ op \in {"write", "read", "write_then_read"}
        /\ StoppedAfterLastStart
        /\ Count("tasks_stop") = 1

(* read has returned AddressNack. *)
C6_Witness ==
    /\ Returned /\ op = "read" /\ result = "AddressNack"
    /\ Has("see:anack")

(* C7 as stated: every operation that returns Ok leaves, in each direction  *)
(* it used, an amount register equal to the length of the caller's buffer,  *)
(* and has run the stop sequence.                                           *)
C7_AsStated ==
    (Returned /\ result = "Ok") =>
        /\ Has("tasks_starttx") => twim.txd_amount = wr_buffer.len
        /\ Has("tasks_startrx") => twim.rxd_amount = rd_buffer.len
        /\ StoppedAfterLastStart

(* C8: in a write_then_read or copy_write_then_read call that reaches the   *)
(* receive phase, no tasks_stop precedes tasks_startrx, every transmit      *)
(* burst has raised its last-byte event and the driver has seen it before   *)
(* the next start task, and tasks_stop is triggered once, after the receive *)
(* last-byte event was seen.                                                *)
C8_NoStopBetweenPhases ==
    (op \in {"write_then_read", "copy_write_then_read"}
        /\ Has("tasks_startrx")) =>
        LET rx == First("tasks_startrx") IN
        /\ Count("tasks_startrx") = 1
        /\ \A i \in 1..rx : trace[i] # "tasks_stop"
        /\ \A i \in 1..rx : trace[i] = "tasks_starttx" =>
              \E j \in (i + 1)..rx, k \in (i + 1)..rx :
                  /\ j < k
                  /\ trace[j] = "hw:lasttx"
                  /\ trace[k] = "see:lasttx"
                  /\ \A m \in (i + 1)..k : trace[m] \notin StartTasks
        /\ Count("tasks_stop") <= 1
        /\ Has("tasks_stop") =>
              \E j \in rx..Len(trace), k \in rx..Len(trace) :
                  /\ j < k /\ k < First("tasks_stop")
                  /\ trace[j] = "hw:lastrx"
                  /\ trace[k] = "see:lastrx"
        /\ Returned => Count("tasks_stop") = 1

(* copy_write_then_read has returned Ok after two transmit bursts. *)
C8_Witness ==
    /\ Returned /\ op = "copy_write_then_read" /\ result = "Ok"
    /\ Count("tasks_starttx") = 2
    /\ Has("tasks_startrx")

(* ceil(n / FORCE_COPY_BUFFER_SIZE) *)
Chunks(n) == (n + FORCE_COPY_BUFFER_SIZE - 1) \div FORCE_COPY_BUFFER_SIZE

(* C9 as stated: copy_write_then_read runs ceil(N / capacity) transmit      *)
(* bursts, the last chunk is N mod capacity long (a full chunk for an exact *)
(* multiple), each burst is programmed with and checked against the length  *)
(* of its chunk, and a mismatch returns Transmit with no further chunk      *)
(* staged.                                                                  *)
C9_AsStated ==
    op = "copy_write_then_read" =>
        LET N == wr_buffer.len IN
        /\ Count("tasks_starttx") = Count("copy")
        /\ Has("tasks_startrx") => Count("tasks_starttx") = Chunks(N)
        /\ (pc = "cwtr_lasttx" /\ offset + FORCE_COPY_BUFFER_SIZE >= N) =>
              ChunkLen(N, offset) =
                  IF N % FORCE_COPY_BUFFER_SIZE = 0
                  THEN FORCE_COPY_BUFFER_SIZE ELSE N % FORCE_COPY_BUFFER_SIZE
        /\ pc = "cwtr_lasttx" => twim.txd_maxcnt = ChunkLen(N, offset)
        /\ (Returned /\ result = "Transmit") =>
              /\ twim.txd_amount # ChunkLen(N, offset)
              /\ Count("copy") = offset \div FORCE_COPY_BUFFER_SIZE + 1

(* The steps by which the driver leaves a wait loop for a last-byte event. *)
LeaveLastByteLoop ==
    \/ Write_LastTx \/ Read_LastRx
    \/ WriteThenRead_LastTx \/ WriteThenRead_LastRx
    \/ CopyWriteThenRead_LastTx \/ CopyWriteThenRead_LastRx

(* C10 as stated: in every operation, once the peripheral has set the       *)
(* address-NACK flag after a start task, the operation leaves its wait      *)
(* loop, starts no further burst, triggers tasks_stop and returns           *)
(* AddressNack.                                                             *)
C10_AsStated ==
    Has("hw:anack") =>
        /\ pc \in {"write_lasttx", "read_lastrx", "wtr_lasttx", "wtr_lastrx",
                   "cwtr_lasttx", "cwtr_lastrx"} => ENABLED LeaveLastByteLoop
        /\ \A i \in First("hw:anack")..Len(trace) : trace[i] \notin StartTasks
        /\ Returned => (result = "AddressNack" /\ Has("tasks_stop"))

----------------------------------------------------------------------------
(* What the driver saw when it left a wait loop. *)
Observations == {"see:lasttx", "see:lastrx", "see:anack", "see:stopped"}

(* Position of the last loop exit of the call, 0 when there is none. *)
LastObservation ==
    IF \E i \in DOMAIN trace : trace[i] \in Observations
    THEN CHOOSE i \in DOMAIN trace :
             /\ trace[i] \in Observations
             /\ \A j \in (i + 1)..Len(trace) : trace[j] \notin Observations
    ELSE 0

(* C11 as stated: every call that triggers a start task emits a fence       *)
(* before its first register write and a closing fence after the last       *)
(* completion event it observes and before it returns, on Ok and on every   *)
(* error return alike.                                                      *)
C11_AsStated ==
    (\E i \in DOMAIN trace : trace[i] \in StartTasks) =>
        /\ trace[1] = "fence"
        /\ Returned => /\ Last("fence") > 1
                       /\ Last("fence") > LastObservation

(* C12: through the adapters, read is the read operation and write_read is *)
(* write_then_read for a source in RAM and copy_write_then_read otherwise, *)
(* with the adapter's own arguments; write on a source in RAM is the write *)
(* operation; write_read and write never give DMABufferNotInDataMemory.    *)
C12_AdaptersDispatch ==
    /\ ad.name = "read" =>
          /\ op = "read"
          /\ address = ad.addr
          /\ rd_buffer = ad.buffer
    /\ ad.name = "write_read" =>
          /\ op = (IF ad.bytes.inram THEN "write_then_read"
                                     ELSE "copy_write_then_read")
          /\ address = ad.addr
          /\ wr_buffer = ad.bytes
          /\ rd_buffer = ad.buffer
          /\ result # "DMABufferNotInDataMemory"
    /\ ad.name = "write" =>
          /\ ad.bytes.inram =>
                /\ op = "write"
                /\ address = ad.addr
                /\ wr_buffer = ad.bytes
                /\ ~ad.looping
          /\ result # "DMABufferNotInDataMemory"
          /\ \A k \in DOMAIN ad.log :
                ad.log[k].result # "DMABufferNotInDataMemory"

C12_Witness ==
    /\ ad.name = "write_read"
    /\ ~ad.bytes.inram
    /\ ad.bytes.len > 0
    /\ Returned
    /\ result = "Ok"

(* C13: no operation repeats a burst or starts again after an error: at    *)
(* most one transmit start per write and write_then_read, one per copied   *)
(* chunk in copy_write_then_read, at most one receive start, no start task *)
(* once a NACK has been seen; in the write adapter the chunks go forward   *)
(* only, an error ends the loop and is the adapter's result.               *)
C13_NoRetry ==
    /\ op \in {"write", "write_then_read"} => Count("tasks_starttx") <= 1
    /\ op = "read" => Count("tasks_starttx") = 0
    /\ op = "copy_write_then_read" =>
          /\ Count("tasks_starttx") = Count("copy")
          /\ Count("tasks_starttx") <= Chunks(wr_buffer.len)
    /\ Count("tasks_startrx") <= 1
    /\ \A i \in DOMAIN trace : trace[i] = "see:anack" =>
          \A j \in (i + 1)..Len(trace) : trace[j] \notin StartTasks
    /\ ad.name = "write" /\ ~ad.bytes.inram =>
          /\ \A k \in DOMAIN ad.log :
                /\ ad.log[k].off = (k - 1) * FORCE_COPY_BUFFER_SIZE
                /\ ad.log[k].result # "Ok" => k = Len(ad.log)
          /\ ad.looping => ad.off = Len(ad.log) * FORCE_COPY_BUFFER_SIZE
          /\ (~ad.looping /\ ad.log # << >>) =>
                result = ad.log[Len(ad.log)].result

C13_Witness ==
    /\ ad.name = "write"
    /\ ~ad.bytes.inram
    /\ ad.bytes.len > FORCE_COPY_BUFFER_SIZE
    /\ ~ad.looping
    /\ Len(ad.log) = 1
    /\ ad.log[1].result = "AddressNack"
    /\ result = "AddressNack"

(* C14: free changes no register of the peripheral or of the pins and      *)
(* triggers no task: every step into the freed state leaves the registers, *)
(* the configuration, the bus engine and the access history as they were.  *)
C14_FreeNoSideEffects ==
    [][pc' = "freed" => /\ twim' = twim
                        /\ cfg' = cfg
                        /\ hw' = hw
                        /\ trace' = trace]_vars

C14_Witness ==
    /\ pc = "freed"
    /\ twim.address \in Addrs
    /\ twim.anack

(* The pin configuration C15 states, "output drive disabled" read as the   *)
(* direction being input, "input buffering disabled" as the input buffer   *)
(* being disconnected.                                                     *)
PinAsStated(p) ==
    /\ cfg.pin_cnf[p].dir = "input"
    /\ cfg.pin_cnf[p].pull = "pullup"
    /\ cfg.pin_cnf[p].input = "disconnect"

Selected ==
    /\ cfg.psel_scl = [pin |-> built.pins.scl, connect |-> "connected"]
    /\ cfg.psel_sda = [pin |-> built.pins.sda, connect |-> "connected"]
    /\ cfg.enable = "enabled"
    /\ cfg.frequency = built.frequency

(* C15 as stated: after new both pins are inputs with pull-up, output      *)
(* drive and input buffer disabled, selected as SCL/SDA and connected, the *)
(* peripheral is enabled and the frequency is the requested one.           *)
C15_AsStated ==
    /\ PinAsStated(built.pins.scl)
    /\ PinAsStated(built.pins.sda)
    /\ Selected

(* C15 amended: after new both pins are inputs with the input buffer       *)
(* connected, pull-up, drive S0D1 and sense disabled; they are selected as *)
(* SCL/SDA and connected, the peripheral is enabled and the frequency is   *)
(* the requested one; no other pin is touched.                             *)
C15_PinsConnected ==
    /\ \A p \in {built.pins.scl, built.pins.sda} :
          cfg.pin_cnf[p] = [dir |-> "input", input |-> "connect",
                            pull |-> "pullup", drive |-> "s0d1",
                            sense |-> "disabled"]
    /\ \A p \in GpioPins \ {built.pins.scl, built.pins.sda} :
          cfg.pin_cnf[p] = ResetPinCnf
    /\ Selected

C15_Witness ==
    /\ built = [pins |-> [scl |-> 25, sda |-> 26], frequency |-> "K400"]
    /\ pc = "idle"
    /\ trace = << >>
    /\ twim = ResetRegs

(* The registers a burst needs before its start task, by direction. *)
Programmed(start) ==
    IF start = "tasks_starttx"
    THEN {"address", "txd.ptr", "txd.maxcnt", "errorsrc"}
    ELSE {"address", "rxd.ptr", "rxd.maxcnt", "errorsrc"}

(* What ends the wait after a start task, by direction. *)
EndOfBurst(start) ==
    IF start = "tasks_starttx" THEN {"see:lasttx", "see:anack"}
                               ELSE {"see:lastrx", "see:anack"}

(* C16 as stated: in every operation each start task comes after writes   *)
(* of the address, of ptr and maxcnt of its direction and of errorsrc in   *)
(* the same call; a stop task after it comes after the wait has seen the   *)
(* last-byte event or the NACK flag; a call that started a burst returns   *)
(* only after a stop task whose stopped event it has seen and cleared.     *)
C16_AsStated ==
    /\ \A i \in DOMAIN trace : trace[i] \in StartTasks =>
          /\ \A r \in Programmed(trace[i]) :
                \E j \in 1..(i - 1) : trace[j] = r
          /\ \A k \in (i + 1)..Len(trace) : trace[k] = "tasks_stop" =>
                \E j \in (i + 1)..(k - 1) : trace[j] \in EndOfBurst(trace[i])
    /\ (Returned /\ \E i \in DOMAIN trace : trace[i] \in StartTasks) =>
          /\ Last("tasks_stop") > LastStart
          /\ Last("see:stopped") > Last("tasks_stop")
          /\ Last("events_stopped") > Last("see:stopped")

(* C17: after a driven transaction, write and read return AddressNack      *)
(* whenever the NACK flag is set, whatever the amount, and Transmit or     *)
(* Receive only with the flag clear and the amount wrong; write_then_read  *)
(* that reached its receive phase returns Transmit when the transmit       *)
(* amount is wrong, whatever the receive amount, and Receive only when the *)
(* transmit amount is right and the receive amount wrong.                  *)
C17_ErrorPriority ==
    /\ (Returned /\ op = "write" /\ Has("tasks_starttx")) =>
          result = IF twim.anack THEN "AddressNack"
                   ELSE IF twim.txd_amount # wr_buffer.len THEN "Transmit"
                   ELSE "Ok"
    /\ (Returned /\ op = "read" /\ Has("tasks_startrx")) =>
          result = IF twim.anack THEN "AddressNack"
                   ELSE IF twim.rxd_amount # rd_buffer.len THEN "Receive"
                   ELSE "Ok"
    /\ (Returned /\ op = "write_then_read" /\ Has("tasks_startrx")) =>
          result = IF twim.txd_amount # wr_buffer.len THEN "Transmit"
                   ELSE IF twim.rxd_amount # rd_buffer.len THEN "Receive"
                   ELSE "Ok"

C17_Witness ==
    /\ Returned
    /\ op = "write_then_read"
    /\ Has("tasks_startrx")
    /\ twim.txd_amount # wr_buffer.len
    /\ twim.rxd_amount # rd_buffer.len
    /\ result = "Transmit"

IsPrefix(a, b) == Len(a) <= Len(b) /\ a = SubSeq(b, 1, Len(a))

(* C18 as stated: with a slave that acknowledges, the bytes the transmit   *)
(* bursts of copy_write_then_read cover, put end to end, are the source    *)
(* bytes in order: a prefix of the source while the call runs and the      *)
(* whole source once it has returned Ok.                                   *)
C18_AsStated ==
    (op = "copy_write_then_read" /\ ~Has("hw:anack")) =>
        /\ IsPrefix(sent, wr_data)
        /\ (Returned /\ result = "Ok") => sent = wr_data

(* The steps of the driver inside a call, and the steps of the peripheral. *)
DriverStep ==
    \/ Write_LastTx \/ Write_Stopped
    \/ Read_LastRx \/ Read_Stopped
    \/ WriteThenRead_LastTx \/ WriteThenRead_NackStopped
    \/ WriteThenRead_LastRx \/ WriteThenRead_Stopped
    \/ CopyWriteThenRead_Chunk \/ CopyWriteThenRead_LastTx
    \/ CopyWriteThenRead_StartRx \/ CopyWriteThenRead_LastRx
    \/ CopyWriteThenRead_Stopped

HwStep == HwLastTx \/ HwLastRx \/ HwAnack \/ HwStopped

InCall == pc \notin {"idle", "done", "freed"}

(* C19 as stated: with a peripheral that answers every start task with the *)
(* last-byte event or the NACK flag and every stop task with the stopped   *)
(* event, every call returns: a call in progress is never left where the   *)
(* peripheral has given its answer and owes nothing more, and the driver   *)
(* cannot leave its wait loop.                                             *)
C19_AsStated == InCall => ENABLED (DriverStep \/ HwStep)

(* Position of the first start task of the call, 0 when there is none. *)
FirstStart ==
    IF \E i \in DOMAIN trace : trace[i] \in StartTasks
    THEN CHOOSE i \in DOMAIN trace :
             /\ trace[i] \in StartTasks
             /\ \A j \in 1..(i - 1) : trace[j] \notin StartTasks
    ELSE 0

(* C20 as stated: a NACK flag still set when a call begins is cleared      *)
(* before the call's first start task; a call during which the slave       *)
(* acknowledges never sees the flag in its wait loops and never returns    *)
(* AddressNack.                                                            *)
C20_AsStated ==
    /\ (pre.anack /\ FirstStart > 0) =>
          \E j \in 1..(FirstStart - 1) : trace[j] = "errorsrc"
    /\ ~Has("hw:anack") =>
          /\ ~Has("see:anack")
          /\ Returned => result # "AddressNack"

EventsClear ==
    /\ ~twim.events_lasttx
    /\ ~twim.events_lastrx
    /\ ~twim.events_stopped

(* C21 as stated: whenever an operation has returned, with Ok or with any  *)
(* error, the three events are clear and the peripheral has no burst in    *)
(* progress.                                                               *)
C21_AsStated == Returned => (EventsClear /\ hw = "idle")

(* The bytes the chunks done so far have written, put end to end. *)
RECURSIVE WrittenUpTo(_)
WrittenUpTo(k) == IF k = 0 THEN << >>
                  ELSE WrittenUpTo(k - 1) \o ad.log[k].sent

(* C22: for a source of N bytes outside RAM the write adapter runs the     *)
(* chunks in order, each a complete write of its own (one start, the stop  *)
(* sequence, the checks) on a window of at most the scratch capacity,      *)
(* programmed with the chunk's length and covering the chunk's bytes; it   *)
(* returns the error of the first failing chunk, Ok only after all         *)
(* ceil(N / capacity) chunks succeeded with the source bytes written in    *)
(* order, and for N = 0 Ok with no register written.                       *)
C22_WriteAdapterChunks ==
    (ad.name = "write" /\ ~ad.bytes.inram) =>
        LET N == ad.bytes.len IN
        /\ \A k \in DOMAIN ad.log :
              /\ ad.log[k].off = (k - 1) * FORCE_COPY_BUFFER_SIZE
              /\ ad.log[k].len = ChunkLen(N, ad.log[k].off)
              /\ ad.log[k].result \notin PreflightErrors =>
                    ad.log[k].sent = SubSeq(Bytes(N, 0), ad.log[k].off + 1,
                                            ad.log[k].off + ad.log[k].len)
              /\ k < Len(ad.log) => ad.log[k].result = "Ok"
        /\ Len(ad.log) <= Chunks(N)
        /\ ad.looping =>
              /\ op = "write"
              /\ address = ad.addr
              /\ ad.off = Len(ad.log) * FORCE_COPY_BUFFER_SIZE
              /\ wr_buffer = [len |-> ChunkLen(N, ad.off), inram |-> TRUE]
              /\ Count("tasks_starttx") <= 1
              /\ Has("tasks_starttx") => twim.txd_maxcnt = ChunkLen(N, ad.off)
              /\ (Returned /\ Has("tasks_starttx")) => StoppedAfterLastStart
        /\ (Returned /\ ~ad.looping) =>
              /\ N = 0 => /\ result = "Ok"
                          /\ ad.log = << >>
                          /\ trace = << >>
                          /\ twim = pre
              /\ N > 0 => /\ ad.log # << >>
                          /\ result = ad.log[Len(ad.log)].result
              /\ result = "Ok" => /\ Len(ad.log) = Chunks(N)
                                  /\ WrittenUpTo(Len(ad.log)) = Bytes(N, 0)
              /\ result # "Ok" => Len(ad.log) <= Chunks(N)

C22_Witness ==
    /\ ad.name = "write"
    /\ ~ad.bytes.inram
    /\ ad.bytes.len > FORCE_COPY_BUFFER_SIZE
    /\ ad.bytes.len % FORCE_COPY_BUFFER_SIZE # 0
    /\ Returned
    /\ ~ad.looping
    /\ result = "Ok"
    /\ Len(ad.log) = 2

====
